---- MODULE Spec2Model ----
(***************************************************************************)
(* A model of the Q-learning control core of openscope-ml:                 *)
(*   StateModel / StateController  (polar discretisation of the airspace)  *)
(*   AgentModel                    (per-aircraft agent, approach test)     *)
(*   AgentController               (Q-table, action selection, tick)       *)
(*                                                                         *)
(* Conventions.  Angles are whole degrees.  Distances are whole distance   *)
(* units, except ctr_radius, which is kept in tenths of a unit so that     *)
(* ceil() and floor() of a fractional radius differ as they do in the      *)
(* code.  A position is given by its polar coordinates about the airport   *)
(* reference position: [dist, brg].  The arrival runway's position is the  *)
(* airport reference position.  A StateModel is represented by its id (a   *)
(* positive integer, the counter value lodash's uniqueId gave it); the JS  *)
(* values false, '' and undefined are the integers below.  Q-values are    *)
(* exact rationals <<numerator, denominator>>.                             *)
(***************************************************************************)
EXTENDS Integers, Sequences, FiniteSets, TLC

VARIABLES
    airport,    \* the AirportModel and its arrival runway: [ctr_radius (tenths),
                \*   rwyAngle (degrees), minGsAlt]
    agents,     \* AgentController.agents, in key (insertion) order:
                \*   Seq of [id, lastState, nextState]
    values,     \* AgentController.values: state id -> [HEADINGS -> rational]
    aircraft,   \* what the aircraft of each agent shows: [pos, hdg, alt, inside, ctl]
    tick,       \* what the last call of update() did
    nUpdates,   \* number of completed Q-updates so far
    probe       \* the last query made of a pure function, and its answer

vars == <<airport, agents, values, aircraft, tick, nUpdates, probe>>

----------------------------------------------------------------------------
(* JavaScript values that are not numbers or objects *)

NoProbe == [kind |-> "none"]
NoTick == [ran |-> FALSE]

FALSE_ == 0
EMPTY_STRING == -1
UNDEFINED == -2

Truthy(v) == v > 0

----------------------------------------------------------------------------
(* aiConstants.js and StateModel's exported constants *)

DISTANCE_RANGE == 5
HEADING_RANGE == 5

NORTH == 360
SOUTH == 180
EAST == 90
WEST == 270

HEADINGS == {NORTH, EAST, SOUTH, WEST}

----------------------------------------------------------------------------
(* Bounds of the model *)

\* positions are probed at every whole distance 0 .. MaxProbeDist
MaxProbeDist == 46

\* the airports a run may be constructed for
CtrRadii == {400, 402}
RunwayAngles == {350}

GlideslopeAltitudes == {2000}

Airports ==
    [ctr_radius : CtrRadii, rwyAngle : RunwayAngles, minGsAlt : GlideslopeAltitudes]

----------------------------------------------------------------------------
(* math/core, math/circle and lodash helpers *)

isWithin(value, limit1, limit2) ==
    LET lo == IF limit1 > limit2 THEN limit2 ELSE limit1
        hi == IF limit1 > limit2 THEN limit1 ELSE limit2
    IN  lo <= value /\ value <= hi

degrees_normalize(degrees) == degrees % 360

\* lodash floor and ceil of a number held in tenths
floor10(x10) == x10 \div 10
ceil10(x10) == (x10 + 9) \div 10

----------------------------------------------------------------------------
(* StateModel *)

WedgesPerRing == 360 \div HEADING_RANGE

\* the id of the StateModel that _buildStates constructs for (distance, heading)
StateIdOf(distance, heading) ==
    (distance \div DISTANCE_RANGE) * WedgesPerRing + (heading \div HEADING_RANGE) + 1

minDistance(state) == ((state - 1) \div WedgesPerRing) * DISTANCE_RANGE
startHeading(state) == ((state - 1) % WedgesPerRing) * HEADING_RANGE

positionIsInState(state, pos) ==
    LET distanceFromAirport == pos.dist
        bearingFromAirport == pos.brg
        distanceCondition ==
            isWithin(distanceFromAirport, minDistance(state),
                     minDistance(state) + DISTANCE_RANGE)
        bearingCondition ==
            isWithin(bearingFromAirport, startHeading(state),
                     degrees_normalize(startHeading(state) + HEADING_RANGE))
    IN  distanceCondition /\ bearingCondition

----------------------------------------------------------------------------
(* StateController *)

MAX_DISTANCE(ap) == ceil10(ap.ctr_radius)

\* the keys of _states: the ring distances the outer loop of _buildStates visits
RingDistances(ap) ==
    {d \in 0 .. MAX_DISTANCE(ap) : d % DISTANCE_RANGE = 0 /\ d < MAX_DISTANCE(ap)}

\* _states[distance]: the ring's StateModels in the order they were pushed
RingStates(distance) ==
    [i \in 1 .. WedgesPerRing |-> StateIdOf(distance, (i - 1) * HEADING_RANGE)]

\* every StateModel _buildStates constructs (the values of _statesId)
WedgeHeadings == {(i - 1) * HEADING_RANGE : i \in 1 .. WedgesPerRing}

AllStates(ap) ==
    {StateIdOf(d, h) : d \in RingDistances(ap), h \in WedgeHeadings}

getStateByPosition(ap, pos) ==
    LET closestPositionMatch == (pos.dist \div DISTANCE_RANGE) * DISTANCE_RANGE
        ring == RingStates(closestPositionMatch)
        hits == {i \in 1 .. WedgesPerRing : positionIsInState(ring[i], pos)}
    IN  IF closestPositionMatch \notin RingDistances(ap) THEN FALSE_
        ELSE IF hits = {} THEN FALSE_
        ELSE ring[CHOOSE i \in hits : \A j \in hits : i <= j]

----------------------------------------------------------------------------
(* JavaScript numbers that hold Q-values: exact rationals <<n, d>>, d > 0 *)

RECURSIVE GCD(_, _)
GCD(a, b) == IF b = 0 THEN a ELSE GCD(b, a % b)

Abs(x) == IF x < 0 THEN -x ELSE x

Rat(n, d) ==
    LET g == GCD(Abs(n), d)
    IN  IF n = 0 THEN <<0, 1>> ELSE <<n \div g, d \div g>>

Num(n) == <<n, 1>>
RatAdd(a, b) == Rat(a[1] * b[2] + b[1] * a[2], a[2] * b[2])
RatMul(a, b) == Rat(a[1] * b[1], a[2] * b[2])
RatGt(a, b) == a[1] * b[2] > b[1] * a[2]

LEARNING_RATE == <<1, 5>>
EXPLORATION_RATE == <<4, 5>>
DISCOUNT_RATE == <<99, 100>>

\* generalUtilities.choose: the element at a random index; undefined for []
choose(list) ==
    IF Len(list) = 0 THEN {UNDEFINED} ELSE {list[i] : i \in 1 .. Len(list)}

----------------------------------------------------------------------------
(* AgentController: legal actions, Q-values, action selection, Q-update *)

\* state.position.bearingToPosition(arrivalRunway.positionModel), in degrees:
\* state.position is the point (minDistance, startHeading) from the airport
bearingToRunway(state) ==
    IF minDistance(state) = 0 THEN 0
    ELSE degrees_normalize(startHeading(state) + 180)

\* init(): runwayHeading = round(radiansToDegrees(arrivalRunway.angle))
runwayHeading(ap) == ap.rwyAngle

getLegalActions(ap, state) ==
    LET arrivalDistanceCondition == minDistance(state) < 25
        arrivalHeadingCondition ==
            isWithin(bearingToRunway(state) - runwayHeading(ap), -45, 45)
        heading == startHeading(state)
        first == IF heading < 90 \/ heading > 270 THEN SOUTH ELSE NORTH
        second == IF heading < 180 THEN WEST ELSE EAST
    IN  IF arrivalDistanceCondition /\ arrivalHeadingCondition THEN <<>>
        ELSE IF minDistance(state) # floor10(ap.ctr_radius)
             THEN <<NORTH, EAST, SOUTH, WEST>>
        ELSE <<first, second>>

getQValue(vals, state, action) ==
    IF state \notin DOMAIN vals THEN Num(0) ELSE vals[state][action]

\* The loop of computeActionFromQValues.  acc.isMin says that qMax is still
\* Number.MIN_VALUE, the smallest positive double: a Q-value q then has
\* q > qMax exactly when q > 0, and q === qMax never.
RECURSIVE bestActionsLoop(_, _, _, _)
bestActionsLoop(vals, state, legalActions, acc) ==
    IF legalActions = <<>> THEN acc.bestActions
    ELSE LET action == Head(legalActions)
             q == getQValue(vals, state, action)
             greater == IF acc.isMin THEN RatGt(q, Num(0)) ELSE RatGt(q, acc.qMax)
             equal == ~acc.isMin /\ q = acc.qMax
             next == IF greater
                         THEN [isMin |-> FALSE, qMax |-> q, bestActions |-> <<action>>]
                     ELSE IF equal
                         THEN [acc EXCEPT !.bestActions = Append(@, action)]
                     ELSE acc
         IN  bestActionsLoop(vals, state, Tail(legalActions), next)

\* the values computeActionFromQValues(state) can return
computeActionFromQValues(vals, ap, state) ==
    LET legalActions == getLegalActions(ap, state)
        start == [isMin |-> TRUE, qMax |-> Num(0), bestActions |-> <<>>]
    IN  IF Len(legalActions) = 0 THEN {FALSE_}
        ELSE choose(bestActionsLoop(vals, state, legalActions, start))

\* the values computeValueFromQValues(state) can return
computeValueFromQValues(vals, ap, state) ==
    {IF ~Truthy(action) THEN Num(0) ELSE getQValue(vals, state, action) :
        action \in computeActionFromQValues(vals, ap, state)}

\* Math.random() <= epsilon in place of Math.random() < epsilon
exploreOutcomes_orEqual(epsilon) ==
    {b \in BOOLEAN : (b => ~RatGt(Num(0), epsilon)) /\ (~b => RatGt(Num(1), epsilon))}

\* Math.random() < epsilon: the branches getAction can take
exploreOutcomes(epsilon) ==
    {b \in BOOLEAN : (b => RatGt(epsilon, Num(0))) /\ (~b => RatGt(Num(1), epsilon))}

\* the values getAction(state) can return when this.epsilon is epsilon
getActionWith(epsilon, vals, ap, state) ==
    LET legalActions == getLegalActions(ap, state)
    IN  IF Len(legalActions) = 0 THEN {FALSE_}
        ELSE UNION {IF explore THEN choose(legalActions)
                    ELSE computeActionFromQValues(vals, ap, state) :
                        explore \in exploreOutcomes(epsilon)}

\* the values getAction(state) can return: this.epsilon is EXPLORATION_RATE
getAction(vals, ap, state) == getActionWith(EXPLORATION_RATE, vals, ap, state)

ZeroRow == [heading \in HEADINGS |-> Num(0)]

\* transition() without the loop that fills a new row with the four headings
transition_partialRow(vals, ap, state, action, nextState, reward) ==
    LET current == getQValue(vals, state, action)
        oldRow == IF state \in DOMAIN vals THEN vals[state] ELSE <<>>
        one_minus_alpha == RatAdd(Num(1), RatMul(Num(-1), LEARNING_RATE))
        New(value) ==
            RatAdd(RatMul(one_minus_alpha, current),
                   RatMul(LEARNING_RATE,
                          RatAdd(Num(reward), RatMul(DISCOUNT_RATE, value))))
    IN  {(state :> ((action :> New(value)) @@ oldRow)) @@ vals :
            value \in computeValueFromQValues(vals, ap, nextState)}

\* transition() with the sample added whole, not weighted by alpha
transitionWith_wholeSample(alpha, discount, vals, ap, state, action, nextState, reward) ==
    LET vals1 == IF state \notin DOMAIN vals THEN (state :> ZeroRow) @@ vals ELSE vals
        current == getQValue(vals1, state, action)
        one_minus_alpha == RatAdd(Num(1), RatMul(Num(-1), alpha))
    IN  {[vals1 EXCEPT ![state][action] =
              RatAdd(RatMul(one_minus_alpha, current),
                     RatAdd(Num(reward), RatMul(discount, value)))] :
            value \in computeValueFromQValues(vals1, ap, nextState)}

\* the tables transition(state, action, nextState, reward) can leave in
\* values when this.alpha is alpha and this.discount is discount
transitionWith(alpha, discount, vals, ap, state, action, nextState, reward) ==
    LET vals1 == IF state \notin DOMAIN vals THEN (state :> ZeroRow) @@ vals ELSE vals
        current == getQValue(vals1, state, action)
        one_minus_alpha == RatAdd(Num(1), RatMul(Num(-1), alpha))
    IN  {[vals1 EXCEPT ![state][action] =
              RatAdd(RatMul(one_minus_alpha, current),
                     RatMul(alpha,
                            RatAdd(Num(reward), RatMul(discount, value))))] :
            value \in computeValueFromQValues(vals1, ap, nextState)}

\* transition() with a row of zeros made for nextState as well
transition_rowForNextState(vals, ap, state, action, nextState, reward) ==
    LET vals0 == IF nextState \notin DOMAIN vals THEN (nextState :> ZeroRow) @@ vals
                 ELSE vals
    IN  transitionWith(LEARNING_RATE, DISCOUNT_RATE, vals0, ap, state, action,
                       nextState, reward)

\* the tables transition(state, action, nextState, reward) can leave in
\* values: this.alpha is LEARNING_RATE, this.discount is DISCOUNT_RATE
transition(vals, ap, state, action, nextState, reward) ==
    transitionWith(LEARNING_RATE, DISCOUNT_RATE, vals, ap, state, action,
                   nextState, reward)

----------------------------------------------------------------------------
(* AgentModel *)

\* new AgentModel(aircraftModel)
NewAgent(id) ==
    [id |-> id, lastState |-> FALSE_, nextState |-> EMPTY_STRING,
     shouldRemove |-> FALSE]

\* ac is what the agent's aircraftModel shows: [pos, hdg, alt, inside, ctl].
\* The runway is at the airport reference position, so its distance to the
\* aircraft is pos.dist and the bearing from the aircraft to it is the
\* reverse of pos.brg.
canConductInstrumentApproach(ac, ap) ==
    LET distanceToRunway == ac.pos.dist
        aircraftBearing ==
            IF ac.pos.dist = 0 THEN 0 ELSE degrees_normalize(ac.pos.brg + 180)
        headingDifference == ap.rwyAngle - aircraftBearing
        difference == ac.hdg - ap.rwyAngle
    IN  IF distanceToRunway > 30 \/ distanceToRunway < 15 THEN FALSE
        ELSE IF ac.alt < ap.minGsAlt THEN FALSE
        ELSE IF headingDifference < -10 \/ headingDifference > 10 THEN FALSE
        ELSE IF Abs(difference) < 20 THEN FALSE
        ELSE TRUE

----------------------------------------------------------------------------
(* AgentController: the agent set and the tick *)

\* 1000 * sin of 0, 5, ..., 90 degrees
SinTable ==
    <<0, 87, 174, 259, 342, 423, 500, 574, 643, 707,
      766, 819, 866, 906, 940, 966, 985, 996, 1000>>

Sin5(a) ==
    IF a <= 90 THEN SinTable[(a \div 5) + 1]
    ELSE IF a <= 180 THEN SinTable[((180 - a) \div 5) + 1]
    ELSE IF a <= 270 THEN -SinTable[((a - 180) \div 5) + 1]
    ELSE -SinTable[((360 - a) \div 5) + 1]

Cos5(a) == Sin5((a + 90) % 360)

\* state.position: east and north offsets from the airport, times 1000
positionX(state) == minDistance(state) * Sin5(startHeading(state))
positionY(state) == minDistance(state) * Cos5(startHeading(state))

\* the action update() derives from the bearing oldPos -> nextPos, a bearing
\* in [0, 360): the quadrant tests of the code, made on the offsets (dx, dy)
derivedAction(lastState, nextState) ==
    LET dx == positionX(nextState) - positionX(lastState)
        dy == positionY(nextState) - positionY(lastState)
        \* bearing <= 45 || bearing > 315
        north == (dx = 0 /\ dy = 0) \/ (dy > 0 /\ dx <= dy /\ dx > -dy)
        \* bearing > 45 && bearing <= 135
        east == dx > 0 /\ dy < dx /\ dy >= -dx
        \* bearing > 135 && bearing <= 225
        south == dy < 0 /\ dx < -dy /\ dx >= dy
    IN  IF north THEN NORTH
        ELSE IF east THEN EAST
        ELSE IF south THEN SOUTH
        ELSE WEST

AgentIds(ags) == {ags[i].id : i \in 1 .. Len(ags)}

AgentOf(ags, id) == ags[CHOOSE i \in 1 .. Len(ags) : ags[i].id = id]

\* this.agents[id] = agent: an existing key keeps its place, a new one is last
SetAgent(ags, agent) ==
    IF agent.id \in AgentIds(ags)
    THEN [i \in 1 .. Len(ags) |-> IF ags[i].id = agent.id THEN agent ELSE ags[i]]
    ELSE Append(ags, agent)

\* delete this.agents[id]
DeleteAgent(ags, id) ==
    LET Keep(a) == a.id # id IN SelectSeq(ags, Keep)

RECURSIVE observeAgents_always(_, _, _, _)
\* the first loop of update() without the test currentState !== lastState
observeAgents_always(ags, ap, snap, i) ==
    IF i > Len(ags) THEN [agents |-> ags, stateUpdates |-> <<>>]
    ELSE LET currentState == getStateByPosition(ap, snap[ags[i].id].pos)
             ags1 == [ags EXCEPT ![i].nextState = currentState]
             rest == observeAgents_always(ags1, ap, snap, i + 1)
         IN  [agents |-> rest.agents,
              stateUpdates |-> <<ags[i].id>> \o rest.stateUpdates]

\* the first loop of update(): forOwn(this.agents, ...)
RECURSIVE observeAgents(_, _, _, _)
observeAgents(ags, ap, snap, i) ==
    IF i > Len(ags) THEN [agents |-> ags, stateUpdates |-> <<>>]
    ELSE LET currentState == getStateByPosition(ap, snap[ags[i].id].pos)
             changed == currentState # ags[i].lastState
             ags1 == IF changed THEN [ags EXCEPT ![i].nextState = currentState]
                     ELSE ags
             rest == observeAgents(ags1, ap, snap, i + 1)
         IN  [agents |-> rest.agents,
              stateUpdates |-> IF changed THEN <<ags[i].id>> \o rest.stateUpdates
                               ELSE rest.stateUpdates]

\* What a tick has done so far is st: [agents, values, calls, cmds, queried,
\* recorded, thrown].  calls are the calls of transition(), cmds the commands
\* given to pilots, queried the states passed to getAction(), recorded the
\* agents whose lastState was set to their nextState (lines 185-186).

\* update(), lines 156-187, for the agent of aircraft id, which has a cell in
\* nextState: the Q-update (if the agent has a lastState) and the move
recordTransition(st, ap, ac, id) ==
    LET agent == AgentOf(st.agents, id)
        hasLast == Truthy(agent.lastState)
        action == derivedAction(agent.lastState, agent.nextState)
        reward == IF canConductInstrumentApproach(ac, ap) THEN 1000
                  ELSE IF ~ac.inside THEN -1000
                  ELSE 0
        tables == IF hasLast
                  THEN transition(st.values, ap, agent.lastState, action,
                                  agent.nextState, reward)
                  ELSE {st.values}
        calls == IF hasLast
                 THEN Append(st.calls,
                             [id |-> id, state |-> agent.lastState, action |-> action,
                              nextState |-> agent.nextState, reward |-> reward])
                 ELSE st.calls
        moved == [agent EXCEPT !.lastState = agent.nextState,
                               !.nextState = EMPTY_STRING]
    IN  {[st EXCEPT !.agents = SetAgent(st.agents, moved),
                    !.values = vals, !.calls = calls,
                    !.recorded = Append(@, id)] : vals \in tables}

\* lines 189-202 without the continue that follows the approach clearance
issueCommand_noContinue(st, ap, ac, id) ==
    LET agent == AgentOf(st.agents, id)
        cleared ==
            IF canConductInstrumentApproach(ac, ap)
            THEN [st EXCEPT
                     !.cmds = Append(@, [id |-> id, cmd |-> "conductInstrumentApproach",
                                         heading |-> 0]),
                     !.agents = DeleteAgent(@, id)]
            ELSE st
    IN  IF ~ac.ctl THEN {cleared}
        ELSE {[cleared EXCEPT
                  !.queried = Append(@, agent.lastState),
                  !.cmds = IF Truthy(heading)
                           THEN Append(@, [id |-> id, cmd |-> "maintainHeading",
                                           heading |-> heading])
                           ELSE @] :
                heading \in getAction(st.values, ap, agent.lastState)}

\* lines 189-202 without the call of aircraftRemoved() that follows the
\* approach clearance
issueCommand_keepAgent(st, ap, ac, id) ==
    LET agent == AgentOf(st.agents, id)
    IN  IF canConductInstrumentApproach(ac, ap)
        THEN {[st EXCEPT
                  !.cmds = Append(@, [id |-> id, cmd |-> "conductInstrumentApproach",
                                      heading |-> 0])]}
        ELSE IF ~ac.ctl THEN {st}
        ELSE {[st EXCEPT
                  !.queried = Append(@, agent.lastState),
                  !.cmds = IF Truthy(heading)
                           THEN Append(@, [id |-> id, cmd |-> "maintainHeading",
                                           heading |-> heading])
                           ELSE @] :
                heading \in getAction(st.values, ap, agent.lastState)}

\* update(), lines 189-202: the approach clearance and the end of control,
\* or the heading command
issueCommand(st, ap, ac, id) ==
    LET agent == AgentOf(st.agents, id)
    IN  IF canConductInstrumentApproach(ac, ap)
        THEN {[st EXCEPT
                  !.cmds = Append(@, [id |-> id, cmd |-> "conductInstrumentApproach",
                                      heading |-> 0]),
                  !.agents = DeleteAgent(@, id)]}
        ELSE IF ~ac.ctl THEN {st}
        ELSE {[st EXCEPT
                  !.queried = Append(@, agent.lastState),
                  !.cmds = IF Truthy(heading)
                           THEN Append(@, [id |-> id, cmd |-> "maintainHeading",
                                           heading |-> heading])
                           ELSE @] :
                heading \in getAction(st.values, ap, agent.lastState)}

\* One pass of the body of the second loop of update().  With a lastState
\* and no cell in nextState (false), oldPos.bearingToPosition(nextPos) is
\* called with nextPos undefined and throws.
processAgent(st, ap, snap, id) ==
    LET agent == AgentOf(st.agents, id)
        throws == Truthy(agent.lastState) /\ ~Truthy(agent.nextState)
    IN  IF throws THEN {[st EXCEPT !.thrown = TRUE]}
        ELSE UNION {issueCommand(st1, ap, snap[id], id) :
                        st1 \in recordTransition(st, ap, snap[id], id)}

\* the second loop of update(): for (const agent of stateUpdates); an
\* exception ends the loop and the tick
RECURSIVE processUpdates(_, _, _, _)
processUpdates(st, ap, snap, stateUpdates) ==
    IF stateUpdates = <<>> \/ st.thrown THEN {st}
    ELSE UNION {processUpdates(st1, ap, snap, Tail(stateUpdates)) :
                    st1 \in processAgent(st, ap, snap, Head(stateUpdates))}

\* the outcomes update() can have when the aircraft show snap
update(ags, vals, ap, snap) ==
    LET seen == observeAgents(ags, ap, snap, 1)
        start == [agents |-> seen.agents, values |-> vals, calls |-> <<>>,
                  cmds |-> <<>>, queried |-> <<>>, recorded |-> <<>>,
                  thrown |-> FALSE]
    IN  processUpdates(start, ap, snap, seen.stateUpdates)

\* init(): an agent for every arrival of the aircraft list inside the airspace
RECURSIVE init(_)
init(list) ==
    IF list = <<>> THEN <<>>
    ELSE LET aircraftModel == Head(list)
             rest == init(Tail(list))
         IN  IF aircraftModel.category = "arrival" /\ aircraftModel.shows.inside
             THEN SetAgent(rest, NewAgent(aircraftModel.id))
             ELSE rest

----------------------------------------------------------------------------
(* The specification of the controller: construction, then notifications,  *)
(* flight and ticks in any order                                           *)

\* steps are taken while fewer than MaxUpdates Q-updates have been made
MaxUpdates == 1

AircraftIds == {1, 2}
Categories == {"arrival", "departure"}

\* where an aircraft can be, and what it shows
FlightPositions ==
    {[dist |-> 41, brg |-> 2], [dist |-> 38, brg |-> 2],
     [dist |-> 27, brg |-> 172], [dist |-> 12, brg |-> 172]}
FlightHeadings == {300}
FlightAltitudes == {3000}

Snapshots ==
    [pos : FlightPositions, hdg : FlightHeadings, alt : FlightAltitudes,
     inside : BOOLEAN, ctl : BOOLEAN]

\* the aircraft lists the constructor can find: the aircraft in either
\* order, each present or not, of either category, showing anything
InitialLists ==
    LET Entries(id) ==
            {<<>>} \cup {<<[id |-> id, category |-> c, shows |-> s]>> :
                            c \in Categories, s \in Snapshots}
    IN  {e2 \o e1 : e1 \in Entries(1), e2 \in Entries(2)}
            \cup {e1 \o e2 : e1 \in Entries(1), e2 \in Entries(2)}

ShownBy(list) == [id \in {list[i].id : i \in 1 .. Len(list)} |->
                     (CHOOSE i \in 1 .. Len(list) : list[i].id = id)]

Init ==
    /\ airport \in Airports
    /\ \E list \in InitialLists :
          /\ agents = init(list)
          /\ aircraft = [id \in AgentIds(init(list)) |->
                            list[ShownBy(list)[id]].shows]
    /\ values = <<>>
    /\ tick = NoTick
    /\ nUpdates = 0
    /\ probe = NoProbe

Running == nUpdates < MaxUpdates

\* the aircraft of the agents, without that of aircraft id
Without(shown, id) == [x \in (DOMAIN shown) \ {id} |-> shown[x]]
\* what tick holds after an add notification for aircraft id: that it took
\* the place of an agent that had a lastState, if it did
Replaced(ags, id) ==
    IF id \in AgentIds(ags) /\ Truthy(AgentOf(ags, id).lastState)
    THEN [ran |-> FALSE, replaced |-> id]
    ELSE NoTick

\* aircraftAdded() making an agent only for an aircraft that has none
aircraftAdded_keepExisting(id, category, s) ==
    /\ Running
    /\ IF category = "arrival"
       THEN /\ agents' = IF id \in AgentIds(agents) THEN agents
                         ELSE SetAgent(agents, NewAgent(id))
            /\ aircraft' = (id :> s) @@ aircraft
            /\ tick' = Replaced(agents, id)
       ELSE /\ s = CHOOSE x \in Snapshots : TRUE
            /\ tick' = NoTick
            /\ UNCHANGED <<agents, aircraft>>
    /\ UNCHANGED <<airport, values, nUpdates, probe>>

\* the handler of ADD_AIRCRAFT and of AIRSPACE_ENTER, for an aircraft that
\* shows s (what it shows matters only if an agent is made for it)
aircraftAdded(id, category, s) ==
    /\ Running
    /\ IF category = "arrival"
       THEN /\ agents' = SetAgent(agents, NewAgent(id))
            /\ aircraft' = (id :> s) @@ aircraft
            /\ tick' = Replaced(agents, id)
       ELSE /\ s = CHOOSE x \in Snapshots : TRUE
            /\ tick' = NoTick
            /\ UNCHANGED <<agents, aircraft>>
    /\ UNCHANGED <<airport, values, nUpdates, probe>>

\* the handler of REMOVE_AIRCRAFT
aircraftRemoved(id) ==
    /\ Running
    /\ agents' = DeleteAgent(agents, id)
    /\ aircraft' = Without(aircraft, id)
    /\ tick' = NoTick
    /\ UNCHANGED <<airport, values, nUpdates, probe>>

\* between ticks the simulation moves an aircraft that an agent flies
Fly(id, s) ==
    /\ Running
    /\ id \in AgentIds(agents)
    /\ aircraft' = [aircraft EXCEPT ![id] = s]
    /\ tick' = NoTick
    /\ UNCHANGED <<airport, agents, values, nUpdates, probe>>

\* one call of update()
Update ==
    /\ Running
    /\ \E out \in update(agents, values, airport, aircraft) :
          /\ agents' = out.agents
          /\ values' = out.values
          /\ aircraft' = [id \in AgentIds(out.agents) |-> aircraft[id]]
          /\ tick' = [ran |-> TRUE, before |-> agents, shown |-> aircraft,
                      calls |-> out.calls, cmds |-> out.cmds,
                      queried |-> out.queried, recorded |-> out.recorded,
                      thrown |-> out.thrown]
          /\ nUpdates' = nUpdates + Len(out.calls)
    /\ UNCHANGED <<airport, probe>>

Next ==
    \/ \E id \in AircraftIds, category \in Categories, s \in Snapshots :
          aircraftAdded(id, category, s)
    \/ \E id \in AircraftIds : aircraftRemoved(id)
    \/ \E id \in AircraftIds, s \in Snapshots : Fly(id, s)
    \/ Update

Spec == Init /\ [][Next]_vars

----------------------------------------------------------------------------
(* The specification of the position lookup: any airport, any position *)

ProbePositions == [dist : 0 .. MaxProbeDist, brg : 0 .. 359]

InitIdle ==
    /\ agents = <<>>
    /\ values = <<>>
    /\ aircraft = <<>>
    /\ tick = NoTick
    /\ nUpdates = 0

InitLocate ==
    /\ airport \in Airports
    /\ \E pos \in ProbePositions : probe = [kind |-> "position", pos |-> pos]
    /\ InitIdle

\* getStateByPosition(pos), and every StateModel whose positionIsInState(pos)
\* is true
Locate ==
    /\ probe.kind = "position"
    /\ probe' = [kind |-> "locate", pos |-> probe.pos,
                 state |-> getStateByPosition(airport, probe.pos),
                 holders |-> {s \in AllStates(airport) :
                                 positionIsInState(s, probe.pos)}]
    /\ UNCHANGED <<airport, agents, values, aircraft, tick, nUpdates>>

NextLocate == Locate

SpecLocate == InitLocate /\ [][NextLocate]_vars

----------------------------------------------------------------------------
(* The specification of the Q-functions: any airport, a table holding rows   *)
(* for the queried states, and one call of one of the functions              *)

\* the (minDistance, startHeading) of the states that are queried
QStateCoordinates ==
    {<<0, 0>>, <<20, 170>>, <<30, 200>>, <<35, 0>>, <<40, 0>>, <<40, 270>>}

QStates(ap) == {StateIdOf(c[1], c[2]) : c \in QStateCoordinates} \cap AllStates(ap)

\* the rewards update() passes to transition()
Rewards == {1000, 0, -1000}

QSamples == {Num(-200), Num(0), Num(200)}
QRows == [HEADINGS -> QSamples]
QPlainRows == {[heading \in HEADINGS |-> q] : q \in QSamples}

\* a table with the given rows; none is the row of a state never updated
NoRow == <<>>
TableOf(state, row, nextState, nextRow) ==
    LET t1 == IF nextRow = NoRow \/ nextState = state THEN <<>>
              ELSE (nextState :> nextRow)
    IN  IF row = NoRow THEN t1 ELSE (state :> row) @@ t1

InitQ ==
    /\ airport \in Airports
    /\ agents = <<>>
    /\ aircraft = <<>>
    /\ tick = NoTick
    /\ nUpdates = 0
    /\ \/ \E state \in QStates(airport), row \in QRows \cup {NoRow} :
            /\ values = TableOf(state, row, state, NoRow)
            /\ probe = [kind |-> "state", state |-> state]
       \/ \E state \in QStates(airport), nextState \in QStates(airport),
             action \in HEADINGS, reward \in Rewards,
             row \in QPlainRows \cup {NoRow}, nextRow \in QRows \cup {NoRow} :
            /\ nextState # state
            /\ values = TableOf(state, row, nextState, nextRow)
            /\ probe = [kind |-> "transition", state |-> state, action |-> action,
                        nextState |-> nextState, reward |-> reward]

AskComputeAction ==
    /\ probe.kind = "state"
    /\ \E result \in computeActionFromQValues(values, airport, probe.state) :
          probe' = [kind |-> "computeActionFromQValues", state |-> probe.state,
                    result |-> result,
                    results |-> computeActionFromQValues(values, airport, probe.state)]
    /\ UNCHANGED <<airport, agents, values, aircraft, tick, nUpdates>>

AskComputeValue ==
    /\ probe.kind = "state"
    /\ \E result \in computeValueFromQValues(values, airport, probe.state) :
          probe' = [kind |-> "computeValueFromQValues", state |-> probe.state,
                    result |-> result]
    /\ UNCHANGED <<airport, agents, values, aircraft, tick, nUpdates>>

AskGetAction ==
    /\ probe.kind = "state"
    /\ \E result \in getAction(values, airport, probe.state) :
          probe' = [kind |-> "getAction", state |-> probe.state, result |-> result,
                    results |-> getAction(values, airport, probe.state)]
    /\ UNCHANGED <<airport, agents, values, aircraft, tick, nUpdates>>

CallTransition ==
    /\ probe.kind = "transition"
    /\ values' \in transition(values, airport, probe.state, probe.action,
                              probe.nextState, probe.reward)
    /\ probe' = [kind |-> "transitioned", state |-> probe.state,
                 action |-> probe.action, nextState |-> probe.nextState,
                 reward |-> probe.reward, before |-> values]
    /\ UNCHANGED <<airport, agents, aircraft, tick, nUpdates>>

NextQ ==
    \/ AskComputeAction
    \/ AskComputeValue
    \/ AskGetAction
    \/ CallTransition

SpecQ == InitQ /\ [][NextQ]_vars

----------------------------------------------------------------------------
\* the extent of a state, half open in distance and in heading
InExtent(state, pos) ==
    /\ minDistance(state) <= pos.dist
    /\ pos.dist < minDistance(state) + DISTANCE_RANGE
    /\ startHeading(state) <= pos.brg
    /\ pos.brg < startHeading(state) + HEADING_RANGE

----------------------------------------------------------------------------
(* What the Q-function claims speak of *)

LegalSet(ap, state) ==
    {getLegalActions(ap, state)[i] : i \in 1 .. Len(getLegalActions(ap, state))}

\* the greatest Q-value of a legal action (the state has one)
MaxLegalQ(vals, ap, state) ==
    LET qs == {getQValue(vals, state, a) : a \in LegalSet(ap, state)}
    IN  CHOOSE q \in qs : \A r \in qs : ~RatGt(r, q)

Maximizers(vals, ap, state) ==
    {a \in LegalSet(ap, state) :
        getQValue(vals, state, a) = MaxLegalQ(vals, ap, state)}

\* C3: computeActionFromQValues returns none only if the state has no legal
\* action; otherwise it returns a legal action of maximal Q-value, and every
\* legal action of maximal Q-value is a possible result.
C3_BestAction ==
    probe.kind = "computeActionFromQValues" =>
        IF LegalSet(airport, probe.state) = {}
        THEN ~Truthy(probe.result)
        ELSE /\ probe.result \in Maximizers(values, airport, probe.state)
             /\ probe.results = Maximizers(values, airport, probe.state)

\* C4: computeValueFromQValues returns 0 if the state has no legal action and
\* otherwise the maximum of getQValue over the legal actions, also when that
\* maximum is negative.
C4_BestValue ==
    probe.kind = "computeValueFromQValues" =>
        probe.result = IF LegalSet(airport, probe.state) = {} THEN Num(0)
                       ELSE MaxLegalQ(values, airport, probe.state)

\* C5: getAction returns none if and only if the state has no legal action;
\* with a legal action, whichever branch is taken, it returns a legal action.
C5_SelectAction ==
    probe.kind = "getAction" =>
        IF LegalSet(airport, probe.state) = {}
        THEN ~Truthy(probe.result)
        ELSE probe.result \in LegalSet(airport, probe.state)

\* (1 - alpha) * old + alpha * (reward + discount * best)
QUpdateRule(old, reward, best) ==
    RatAdd(RatMul(RatAdd(Num(1), RatMul(Num(-1), LEARNING_RATE)), old),
           RatMul(LEARNING_RATE,
                  RatAdd(Num(reward), RatMul(DISCOUNT_RATE, best))))

\* C7: transition(state, action, nextState, reward) sets values[state][action]
\* to (1 - alpha) * old + alpha * (reward + discount * bestValue(nextState)),
\* old being the value before the call (0 if unseen) and bestValue(nextState)
\* the greatest Q-value of a legal action of nextState (0 if it has none).
C7_QUpdateRule ==
    probe.kind = "transitioned" =>
        values[probe.state][probe.action] =
            QUpdateRule(getQValue(probe.before, probe.state, probe.action),
                        probe.reward,
                        IF LegalSet(airport, probe.nextState) = {} THEN Num(0)
                        ELSE MaxLegalQ(probe.before, airport, probe.nextState))

----------------------------------------------------------------------------
(* What the claims about ticks speak of *)

\* the state update() located the aircraft of an agent in
LocatedAt(id) == getStateByPosition(airport, tick.shown[id].pos)

CallsOf(id) == {i \in 1 .. Len(tick.calls) : tick.calls[i].id = id}
CommandsOf(id) == {i \in 1 .. Len(tick.cmds) : tick.cmds[i].id = id}

\* C6: update() never throws, whatever the aircraft show, also for an agent
\* with a lastState whose aircraft is located in no state; the tick ends
\* with every pending transition processed.
C6_TickNeverThrows ==
    tick.ran =>
        /\ ~tick.thrown
        /\ \A i \in 1 .. Len(agents) : agents[i].nextState = EMPTY_STRING

\* a number: a ratio of integers
IsNumber(q) == q \in Int \X Int /\ q[2] > 0

TableShape(vals) ==
    \A s \in DOMAIN vals :
        /\ DOMAIN vals[s] = HEADINGS
        /\ \A h \in HEADINGS : IsNumber(vals[s][h])

SampleStates == {StateIdOf(c[1], c[2]) : c \in QStateCoordinates}

RowsMadeByUpdates ==
    \A s \in (DOMAIN values') \ (DOMAIN values) :
        /\ tick'.ran
        /\ \E i \in 1 .. Len(tick'.calls) : tick'.calls[i].state = s
        /\ \A h \in HEADINGS :
              (\A i \in 1 .. Len(tick'.calls) :
                  ~(tick'.calls[i].state = s /\ tick'.calls[i].action = h))
                  => values'[s][h] = Num(0)

UnseenIsZero(vals) ==
    \A s \in SampleStates \ DOMAIN vals, h \in HEADINGS :
        getQValue(vals, s, h) = Num(0)

\* C8: every row of values has exactly the four keys NORTH, EAST, SOUTH, WEST
\* with numbers as values; a row appears only in a step that calls
\* transition() for its state, and is 0 at the actions not updated in that
\* step; getQValue is 0 for a state without a row.
C8_TableShape ==
    /\ [](TableShape(values) /\ UnseenIsZero(values))
    /\ [][RowsMadeByUpdates]_vars

\* a tick has made a row, and another state has none
C8_Witness ==
    /\ tick.ran /\ Len(tick.calls) > 0
    /\ tick.calls[1].state \in DOMAIN values
    /\ values[tick.calls[1].state][tick.calls[1].action] # Num(0)
    /\ SampleStates \ DOMAIN values # {}

\* C9: in a tick, transition() is called exactly once for every agent that
\* has a lastState and whose aircraft is located in another state, with that
\* lastState and the newly located state; never for an agent whose state is
\* unchanged, nor for a first observation.
C9_OneUpdatePerTransition ==
    tick.ran =>
        \A i \in 1 .. Len(tick.before) :
            LET agent == tick.before[i]
                observed == /\ Truthy(agent.lastState)
                            /\ Truthy(LocatedAt(agent.id))
                            /\ LocatedAt(agent.id) # agent.lastState
            IN  IF observed
                THEN /\ Cardinality(CallsOf(agent.id)) = 1
                     /\ \A c \in CallsOf(agent.id) :
                           /\ tick.calls[c].state = agent.lastState
                           /\ tick.calls[c].nextState = LocatedAt(agent.id)
                           /\ tick.calls[c].action \in HEADINGS
                           /\ tick.calls[c].reward \in Rewards
                ELSE CallsOf(agent.id) = {}

\* C10: in a tick every agent is given at most one command: an approach
\* clearance, or a heading, or nothing.
C10_OneCommandPerTick ==
    tick.ran =>
        /\ \A id \in AircraftIds : Cardinality(CommandsOf(id)) <= 1
        /\ \A i \in 1 .. Len(tick.cmds) :
              tick.cmds[i].id \in AgentIds(tick.before)

\* a tick has cleared one aircraft for the approach from a state that has
\* legal actions, and given the other a heading
C10_Witness ==
    /\ tick.ran
    /\ \E i, j \in 1 .. Len(tick.cmds) :
          /\ tick.cmds[i].cmd = "conductInstrumentApproach"
          /\ getLegalActions(airport, LocatedAt(tick.cmds[i].id)) # <<>>
          /\ tick.shown[tick.cmds[i].id].ctl
          /\ tick.cmds[j].cmd = "maintainHeading"

----------------------------------------------------------------------------
RecordedIds == {tick.recorded[i] : i \in 1 .. Len(tick.recorded)}

\* the agents a tick recorded a transition for while their aircraft could
\* conduct the approach
HandedOff ==
    {id \in RecordedIds : canConductInstrumentApproach(tick.shown[id], airport)}

\* a step that is a tick adds no agent, and its Q-updates and commands are
\* all for agents that were in the agent set before it
TickServesAgentsOnly ==
    tick'.ran =>
        /\ AgentIds(agents') \subseteq AgentIds(agents)
        /\ \A i \in 1 .. Len(tick'.calls) : tick'.calls[i].id \in AgentIds(agents)
        /\ \A i \in 1 .. Len(tick'.cmds) : tick'.cmds[i].id \in AgentIds(agents)

\* C11: an agent whose transition a tick recorded and whose aircraft can
\* conduct the approach is given the approach clearance and no heading in
\* that tick and is deleted from the agent set in that tick; no tick makes a
\* Q-update or gives a command for an aircraft that has no agent, and only a
\* notification, never a tick, puts an agent into the agent set.
C11_TerminalHandOff ==
    /\ [](tick.ran =>
            \A id \in HandedOff :
                /\ \E c \in CommandsOf(id) :
                      tick.cmds[c].cmd = "conductInstrumentApproach"
                /\ \A c \in CommandsOf(id) : tick.cmds[c].cmd # "maintainHeading"
                /\ id \notin AgentIds(agents))
    /\ [][TickServesAgentsOnly]_vars

\* a tick has recorded a transition with a Q-update for a controllable
\* aircraft that can conduct the approach, and another agent lives on
C11_Witness ==
    /\ tick.ran
    /\ \E id \in HandedOff :
          /\ CallsOf(id) # {}
          /\ tick.shown[id].ctl
          /\ getLegalActions(airport, LocatedAt(id)) # <<>>
    /\ agents # <<>>

----------------------------------------------------------------------------
(* The specification of the legal actions: any airport, any state built *)

\* radii: below the approach distance, an exact multiple of DISTANCE_RANGE,
\* and one that is not; runway headings: far from and near to 360
LegalCtrRadii == {152, 400, 402}
LegalRunwayAngles == {180, 350}

LegalAirports ==
    [ctr_radius : LegalCtrRadii, rwyAngle : LegalRunwayAngles,
     minGsAlt : GlideslopeAltitudes]

InitLegal ==
    /\ airport \in LegalAirports
    /\ \E state \in AllStates(airport) : probe = [kind |-> "cell", state |-> state]
    /\ InitIdle

\* getLegalActions(state)
AskLegalActions ==
    /\ probe.kind = "cell"
    /\ probe' = [kind |-> "getLegalActions", state |-> probe.state,
                 result |-> getLegalActions(airport, probe.state)]
    /\ UNCHANGED <<airport, agents, values, aircraft, tick, nUpdates>>

NextLegal == AskLegalActions

SpecLegal == InitLegal /\ [][NextLegal]_vars

\* the elements of a list of actions
ActionsIn(list) == {list[i] : i \in 1 .. Len(list)}

\* the largest minDistance _buildStates makes a ring for
OutermostRing(ap) ==
    CHOOSE d \in RingDistances(ap) : \A e \in RingDistances(ap) : e <= d

\* 1000000 times the cosine of the angle between the direction of a cardinal
\* heading and the direction from the airport to the point at bearing brg
Outward(brg, heading) ==
    Sin5(brg % 360) * Sin5(heading % 360) + Cos5(brg % 360) * Cos5(heading % 360)

\* the cardinal headings that bring an aircraft anywhere in the wedge that
\* starts at startHdg closer to the airport
TowardCentre(startHdg) ==
    {heading \in HEADINGS :
        /\ Outward(startHdg, heading) <= 0
        /\ Outward(startHdg + HEADING_RANGE, heading) <= 0}

\* the difference of two angles on the circle, 0 .. 180
AngleBetween(a, b) ==
    LET d == (a - b) % 360 IN IF d > 180 THEN 360 - d ELSE d

\* a state of the approach geometry: close, and its position's bearing to
\* the runway within 45 degrees of the runway heading
IsTerminal(ap, state) ==
    /\ minDistance(state) < 25
    /\ AngleBetween(bearingToRunway(state), runwayHeading(ap)) <= 45

\* C12: for every state of the outermost ring that is not terminal, whatever
\* ctr_radius is and whatever the wedge, getLegalActions returns exactly two
\* actions: the two cardinal headings that point back toward the airport.
C12_OutermostRing ==
    (/\ probe.kind = "getLegalActions"
     /\ minDistance(probe.state) = OutermostRing(airport)
     /\ ~IsTerminal(airport, probe.state))
        => /\ Len(probe.result) = 2
           /\ ActionsIn(probe.result) = TowardCentre(startHeading(probe.state))

\* C15: getLegalActions returns no action for every state with minDistance
\* < 25 whose bearing to the runway is within 45 degrees of the runway
\* heading, outermost ring or not, and the four headings for every other
\* state that is not in the outermost ring.  (The states of ring 0 are left
\* out: their position is the airport reference position itself.)
C15_LegalActionPolicy ==
    (probe.kind = "getLegalActions" /\ minDistance(probe.state) > 0) =>
        IF IsTerminal(airport, probe.state)
        THEN probe.result = <<>>
        ELSE minDistance(probe.state) # OutermostRing(airport)
                => (Len(probe.result) = 4 /\ ActionsIn(probe.result) = HEADINGS)

----------------------------------------------------------------------------
\* the reward the reward rule gives for what an aircraft shows
RewardFor(ac) ==
    IF canConductInstrumentApproach(ac, airport) THEN 1000
    ELSE IF ~ac.inside THEN -1000
    ELSE 0

\* C13: with ctr_radius 40, a controllable agent without a lastState whose
\* aircraft is at distance 38 in the wedge 0-5 has, after a tick that ran to
\* its end, the state (ring 35, wedge 0) as lastState, no Q-update, and
\* exactly one command: a heading that is NORTH or WEST.
C13_FirstTickScenario ==
    (tick.ran /\ ~tick.thrown /\ airport.ctr_radius = 400) =>
        \A i \in 1 .. Len(tick.before) :
            LET agent == tick.before[i]
                shown == tick.shown[agent.id]
            IN  (/\ agent.lastState = FALSE_
                 /\ shown.pos = [dist |-> 38, brg |-> 2]
                 /\ shown.ctl)
                    => /\ agent.id \in AgentIds(agents)
                       /\ AgentOf(agents, agent.id).lastState = StateIdOf(35, 0)
                       /\ CallsOf(agent.id) = {}
                       /\ Cardinality(CommandsOf(agent.id)) = 1
                       /\ \A c \in CommandsOf(agent.id) :
                             /\ tick.cmds[c].cmd = "maintainHeading"
                             /\ tick.cmds[c].heading \in {NORTH, WEST}

\* C14: every state a tick passes to getAction() has a legal action.
C14_TerminalNeverQueried ==
    tick.ran =>
        \A i \in 1 .. Len(tick.queried) :
            getLegalActions(airport, tick.queried[i]) # <<>>

\* C16: the reward of every Q-update of a tick is 1000 if the aircraft can
\* conduct the approach, else -1000 if it is not inside the airspace, else
\* 0; and for every agent with a lastState whose aircraft has left the
\* airspace the tick makes a Q-update of reward -1000 at lastState, which
\* then has a row in values.
C16_RewardMapping ==
    tick.ran =>
        /\ \A c \in 1 .. Len(tick.calls) :
              tick.calls[c].reward = RewardFor(tick.shown[tick.calls[c].id])
        /\ \A i \in 1 .. Len(tick.before) :
              LET agent == tick.before[i]
                  shown == tick.shown[agent.id]
              IN  (/\ Truthy(agent.lastState)
                   /\ ~shown.inside
                   /\ shown.pos.dist * 10 >= airport.ctr_radius)
                      => /\ \E c \in CallsOf(agent.id) :
                               /\ tick.calls[c].state = agent.lastState
                               /\ tick.calls[c].reward = -1000
                         /\ agent.lastState \in DOMAIN values

\* C17: an agent for whose aircraft a tick has found isInsideAirspace false
\* (the reward of its Q-update is -1000) is not in the agent set after
\* that tick.
C17_ExitIsTerminal ==
    tick.ran =>
        \A c \in 1 .. Len(tick.calls) :
            tick.calls[c].reward = -1000
                => tick.calls[c].id \notin AgentIds(agents)

\* a step that puts an agent for another aircraft into the agent set does
\* so for an aircraft inside the airspace, and a remove notification leaves
\* no agent for its aircraft
MembershipKept ==
    /\ \A id \in AgentIds(agents') \ AgentIds(agents) : aircraft'[id].inside
    /\ \A id \in AircraftIds : aircraftRemoved(id) => id \notin AgentIds(agents')

\* C18: the agents made by the constructor are for aircraft inside the
\* airspace, and so is every agent a later step makes; every agent's id is
\* the id of its aircraft; after a remove notification no agent remains for
\* that aircraft.
C18_AgentMembership ==
    /\ \A id \in AgentIds(agents) : aircraft[id].inside
    /\ [](AgentIds(agents) = DOMAIN aircraft)
    /\ [][MembershipKept]_vars

----------------------------------------------------------------------------
(* The specification of the approach test: any runway, any aircraft, the   *)
(* arguments present or not                                                *)

\* a value that _isNil() finds missing, and one it does not
NIL == "nil"
PRESENT == "present"

\* AgentModel.canConductInstrumentApproach(position, runwayModel) of an agent
\* whose aircraftModel shows ac; "true", "false", or the error thrown
canConductInstrumentApproachCall(position, runwayModel, ac, ap) ==
    IF position = NIL THEN "false"
    ELSE IF runwayModel = NIL THEN "false"
    ELSE IF canConductInstrumentApproach(ac, ap) THEN "true"
    ELSE "false"

\* The method as the AgentModel of ai/AgentModel.js has it: after the
\* altitude test it reads this.runwayModel.heading, and that AgentModel's
\* constructor sets aircraftModel and id only.
canConductInstrumentApproachEarlier(position, runwayModel, ac, ap) ==
    IF position = NIL THEN "false"
    ELSE IF runwayModel = NIL THEN "false"
    ELSE IF ac.alt < ap.minGsAlt THEN "false"
    ELSE "TypeError"

ApproachRunwayAngles == {5, 180, 350}
ApproachAirports ==
    [ctr_radius : {400}, rwyAngle : ApproachRunwayAngles,
     minGsAlt : GlideslopeAltitudes]

\* distances about the band [15, 30]; bearings from the airport whose
\* reverse is about each runway heading; headings about each runway heading
ApproachDistances == {14, 15, 30, 31}
ApproachBearings == {0, 10, 11, 160, 170, 175, 178, 180, 185, 195, 196, 350}
ApproachHeadings == {5, 10, 25, 26, 160, 180, 200, 330, 350}
ApproachAltitudes == {1000, 2000, 3000}

ApproachAircraft ==
    [pos : [dist : ApproachDistances, brg : ApproachBearings],
     hdg : ApproachHeadings, alt : ApproachAltitudes,
     inside : {TRUE}, ctl : {TRUE}]

InitApproach ==
    /\ airport \in ApproachAirports
    /\ \E position \in {NIL, PRESENT}, runwayModel \in {NIL, PRESENT},
          ac \in ApproachAircraft :
            probe = [kind |-> "approach", position |-> position,
                     runwayModel |-> runwayModel, ac |-> ac]
    /\ InitIdle

AskCanConduct ==
    /\ probe.kind = "approach"
    /\ probe' = [kind |-> "canConductInstrumentApproach",
                 position |-> probe.position, runwayModel |-> probe.runwayModel,
                 ac |-> probe.ac,
                 result |-> canConductInstrumentApproachCall(
                                probe.position, probe.runwayModel, probe.ac, airport)]
    /\ UNCHANGED <<airport, agents, values, aircraft, tick, nUpdates>>

AskCanConductEarlier ==
    /\ probe.kind = "approach"
    /\ probe' = [kind |-> "canConductInstrumentApproachEarlier",
                 position |-> probe.position, runwayModel |-> probe.runwayModel,
                 ac |-> probe.ac,
                 result |-> canConductInstrumentApproachEarlier(
                                probe.position, probe.runwayModel, probe.ac, airport)]
    /\ UNCHANGED <<airport, agents, values, aircraft, tick, nUpdates>>

NextApproach ==
    \/ AskCanConduct
    \/ AskCanConductEarlier

SpecApproach == InitApproach /\ [][NextApproach]_vars

\* the bearing the approach test takes for an aircraft: from the aircraft
\* to the runway
BearingToRunwayOf(ac) ==
    IF ac.pos.dist = 0 THEN 0 ELSE degrees_normalize(ac.pos.brg + 180)

\* C19: with both arguments present, canConductInstrumentApproach is true
\* exactly when the altitude is at least the minimum glideslope intercept
\* altitude, the distance to the runway is in [15, 30], the bearing is
\* within 10 degrees of the runway heading and the aircraft heading is at
\* least 20 degrees from the runway heading, both measured on the circle.
C19_ApproachGeometry ==
    (/\ probe.kind = "canConductInstrumentApproach"
     /\ probe.position = PRESENT
     /\ probe.runwayModel = PRESENT)
        => ((probe.result = "true") <=>
               /\ probe.ac.alt >= airport.minGsAlt
               /\ probe.ac.pos.dist >= 15
               /\ probe.ac.pos.dist <= 30
               /\ AngleBetween(BearingToRunwayOf(probe.ac), airport.rwyAngle) <= 10
               /\ AngleBetween(probe.ac.hdg, airport.rwyAngle) >= 20)

\* C20: canConductInstrumentApproach, in either form the sources have it,
\* never throws; it returns false when the position is missing, when the
\* runway is missing and when the altitude is below the minimum glideslope
\* intercept altitude, and true or false otherwise.
C20_ApproachNeverThrows ==
    probe.kind \in {"canConductInstrumentApproach",
                    "canConductInstrumentApproachEarlier"}
        => /\ probe.result \in {"true", "false"}
           /\ (\/ probe.position = NIL
               \/ probe.runwayModel = NIL
               \/ probe.ac.alt < airport.minGsAlt) => probe.result = "false"

----------------------------------------------------------------------------
(* The specification of the exploration rate: getAction() of a controller  *)
(* whose epsilon has been set to 0 or to 1                                 *)

Epsilons == {Num(0), Num(1)}

InitEpsilon ==
    /\ airport \in Airports
    /\ agents = <<>>
    /\ aircraft = <<>>
    /\ tick = NoTick
    /\ nUpdates = 0
    /\ \E state \in QStates(airport), row \in QRows \cup {NoRow},
          epsilon \in Epsilons :
            /\ values = TableOf(state, row, state, NoRow)
            /\ probe = [kind |-> "epsilon", state |-> state, epsilon |-> epsilon]

AskGetActionWith ==
    /\ probe.kind = "epsilon"
    /\ \E result \in getActionWith(probe.epsilon, values, airport, probe.state) :
          probe' = [kind |-> "getActionWith", state |-> probe.state,
                    epsilon |-> probe.epsilon, result |-> result,
                    results |-> getActionWith(probe.epsilon, values, airport,
                                              probe.state)]
    /\ UNCHANGED <<airport, agents, values, aircraft, tick, nUpdates>>

NextEpsilon == AskGetActionWith

SpecEpsilon == InitEpsilon /\ [][NextEpsilon]_vars

\* C21: with epsilon 0 the possible results of getAction(state) are those of
\* computeActionFromQValues(state); with epsilon 1 they are the legal
\* actions of the state, every one of them and nothing else (none alone for
\* a state without legal actions).
C21_EpsilonBounds ==
    probe.kind = "getActionWith" =>
        /\ probe.epsilon = Num(0) =>
               probe.results = computeActionFromQValues(values, airport, probe.state)
        /\ probe.epsilon = Num(1) =>
               probe.results = IF LegalSet(airport, probe.state) = {} THEN {FALSE_}
                               ELSE LegalSet(airport, probe.state)

\* getAction has answered with epsilon 0 for a state whose best action is
\* one of several legal actions
C21_Witness ==
    /\ probe.kind = "getActionWith"
    /\ probe.epsilon = Num(0)
    /\ Cardinality(LegalSet(airport, probe.state)) > 1
    /\ Cardinality(probe.results) = 1
    /\ probe.result \in LegalSet(airport, probe.state)

----------------------------------------------------------------------------
(* The StateController's own tables: _states and _statesId as _buildStates *)
(* fills them, with the ids _uniqueId hands out, and getStateById          *)

\* the value of lodash's id counter when the StateController is constructed
IdCounters == {0, 12}

MaxStateId == 700

\* an id per wedge, the same in every ring, in place of _uniqueId
NewStateModel_wedgeId(minDist, startHdg, idCounter) ==
    [id |-> startHdg \div HEADING_RANGE + 1, minDistance |-> minDist,
     startHeading |-> startHdg]

\* new StateModel(minDistance, startHeading, airportModel): _uniqueId
\* increments the counter and returns it
NewStateModel(minDist, startHdg, idCounter) ==
    [id |-> idCounter + 1, minDistance |-> minDist, startHeading |-> startHdg]

\* getStateById's false, as a value that compares with StateModels
NoStateModel == [id |-> FALSE_]

\* the number of StateModels _buildStates has constructed when the loops
\* reach (distance, heading)
builtBefore(distance, heading) ==
    (distance \div DISTANCE_RANGE) * WedgesPerRing + heading \div HEADING_RANGE

\* the StateController after its constructor: _states[distance] holds the
\* ring's StateModels in heading order, _statesId[model.id] the StateModel
\* assigned to that key last
buildStates(ap, idCounter) ==
    LET ringOf(distance) ==
            [i \in 1 .. WedgesPerRing |->
                NewStateModel(distance, (i - 1) * HEADING_RANGE,
                    idCounter + builtBefore(distance, (i - 1) * HEADING_RANGE))]
        states == [distance \in RingDistances(ap) |-> ringOf(distance)]
        models == {states[d][i] : d \in RingDistances(ap), i \in 1 .. WedgesPerRing}
        madeAt(m) == builtBefore(m.minDistance, m.startHeading)
        lastWith(id) ==
            LET same == {m \in models : m.id = id}
            IN  CHOOSE m \in same : \A n \in same : madeAt(n) <= madeAt(m)
    IN  [states |-> states,
         statesId |-> [id \in {m.id : m \in models} |-> lastWith(id)]]

getStateById(sc, id) ==
    IF id \in DOMAIN sc.statesId THEN sc.statesId[id] ELSE NoStateModel

\* every StateModel in _states
BuiltCells(sc) ==
    {sc.states[d][i] : d \in DOMAIN sc.states, i \in 1 .. WedgesPerRing}

InitCells ==
    /\ airport \in Airports
    /\ agents = <<>>
    /\ values = <<>>
    /\ aircraft = <<>>
    /\ tick = NoTick
    /\ nUpdates = 0
    /\ \E idCounter \in IdCounters :
          \E sc \in {buildStates(airport, idCounter)}, id \in 0 .. MaxStateId :
              probe = [kind |-> "built", controller |-> sc,
                       first |-> idCounter, id |-> id]

AskStateById ==
    /\ probe.kind = "built"
    /\ probe' = [kind |-> "getStateById", controller |-> probe.controller,
                 first |-> probe.first, id |-> probe.id,
                 result |-> getStateById(probe.controller, probe.id)]
    /\ UNCHANGED <<airport, agents, values, aircraft, tick, nUpdates>>

NextCells == AskStateById

SpecCells == InitCells /\ [][NextCells]_vars

\* the ids of the built StateModels are those the cells are known by
\* elsewhere when the counter starts at 0
BuiltAsNumbered ==
    probe.first = 0 =>
        /\ {c.id : c \in BuiltCells(probe.controller)} = AllStates(airport)
        /\ \A c \in BuiltCells(probe.controller) :
              c.id = StateIdOf(c.minDistance, c.startHeading)

\* C22: the cells _buildStates builds have pairwise distinct ids,
\* getStateById(cell.id) is that cell for every built cell, getStateById of
\* an id no cell has is none, and the cell tables are the same after every
\* step.
C22_CellIdentity ==
    /\ [](/\ Cardinality({c.id : c \in BuiltCells(probe.controller)})
                = Cardinality(BuiltCells(probe.controller))
          /\ \A c \in BuiltCells(probe.controller) :
                getStateById(probe.controller, c.id) = c
          /\ probe.kind = "getStateById" =>
                IF \E c \in BuiltCells(probe.controller) : c.id = probe.id
                    THEN probe.result \in BuiltCells(probe.controller)
                         /\ probe.result.id = probe.id
                    ELSE probe.result = NoStateModel)
    /\ [][probe'.controller = probe.controller]_vars

\* getStateById has answered for the id of a cell of the second ring and
\* for an id past the last cell
C22_Witness ==
    /\ probe.kind = "getStateById"
    /\ \/ /\ probe.result # NoStateModel
          /\ probe.result.minDistance = DISTANCE_RANGE
          /\ probe.result.id = probe.id
       \/ /\ probe.result = NoStateModel
          /\ probe.id > Cardinality(BuiltCells(probe.controller))

----------------------------------------------------------------------------
(* The agents between ticks                                                *)

\* C23: after every update() call that returned, every agent still in the
\* agent set has an empty nextState and has as lastState the cell in which
\* its aircraft was located during that tick.
C23_NoPendingTransition ==
    (tick.ran /\ ~tick.thrown) =>
        \A i \in 1 .. Len(agents) :
            /\ agents[i].nextState = EMPTY_STRING
            /\ agents[i].lastState = LocatedAt(agents[i].id)

----------------------------------------------------------------------------
(* The specification of repeated Q-updates: transition() called again and  *)
(* again with the same arguments by a controller whose discount is 0       *)

MaxCalls == 3

InitSmoothing ==
    /\ airport \in Airports
    /\ agents = <<>>
    /\ aircraft = <<>>
    /\ tick = NoTick
    /\ nUpdates = 0
    /\ \E state \in QStates(airport), nextState \in QStates(airport),
          row \in QPlainRows \cup {NoRow}, nextRow \in QPlainRows \cup {NoRow},
          action \in HEADINGS, reward \in Rewards :
            /\ nextState # state
            /\ values = TableOf(state, row, nextState, nextRow)
            /\ probe = [kind |-> "smoothing", state |-> state, action |-> action,
                        nextState |-> nextState, reward |-> reward,
                        first |-> getQValue(values, state, action), calls |-> 0]

CallTransitionAgain ==
    /\ probe.kind = "smoothing"
    /\ probe.calls < MaxCalls
    /\ values' \in transitionWith(LEARNING_RATE, Num(0), values, airport,
                                  probe.state, probe.action, probe.nextState,
                                  probe.reward)
    /\ probe' = [probe EXCEPT !.calls = @ + 1]
    /\ UNCHANGED <<airport, agents, aircraft, tick, nUpdates>>

NextSmoothing == CallTransitionAgain

SpecSmoothing == InitSmoothing /\ [][NextSmoothing]_vars

RatAbs(q) == <<Abs(q[1]), q[2]>>

RECURSIVE RatPow(_, _)
RatPow(q, n) == IF n = 0 THEN Num(1) ELSE RatMul(q, RatPow(q, n - 1))

\* |Q(state, action) - reward| in the table vals
DistanceToReward(vals) ==
    RatAbs(RatAdd(getQValue(vals, probe.state, probe.action),
                  Num(-probe.reward)))

\* C24: with discount 0, after n calls transition(S, A, S', R) from the
\* value v0 of Q(S, A), |Q(S, A) - R| = |v0 - R| * (1 - alpha)^n, and no
\* call increases the distance of Q(S, A) to R.
C24_Smoothing ==
    /\ [](probe.kind = "smoothing" =>
             DistanceToReward(values) =
                 RatMul(RatAbs(RatAdd(probe.first, Num(-probe.reward))),
                        RatPow(RatAdd(Num(1), RatMul(Num(-1), LEARNING_RATE)),
                               probe.calls)))
    /\ [][(probe.kind = "smoothing" /\ probe'.calls = probe.calls + 1) =>
              ~RatGt(DistanceToReward(values'), DistanceToReward(values))]_vars

\* transition() has been called MaxCalls times from a value other than the
\* reward, and from a state never updated before
C24_Witness ==
    /\ probe.kind = "smoothing"
    /\ probe.calls = MaxCalls
    /\ probe.first # Num(probe.reward)
    /\ probe.nextState \in DOMAIN values
    /\ RatGt(RatAbs(RatAdd(probe.first, Num(-probe.reward))),
             DistanceToReward(values))

----------------------------------------------------------------------------
(* What a Q-update leaves alone                                            *)

\* C25: transition(state, action, nextState, reward) changes only the entry
\* values[state][action]: the rows of all other states are as before, the
\* other three entries of state keep their value (0 if the row was made by
\* this call), and no row is made for nextState or any other state.
C25_TransitionFrame ==
    probe.kind = "transitioned" =>
        /\ DOMAIN values = DOMAIN probe.before \cup {probe.state}
        /\ \A s \in DOMAIN probe.before \ {probe.state} :
              values[s] = probe.before[s]
        /\ \A heading \in HEADINGS \ {probe.action} :
              values[probe.state][heading] =
                  getQValue(probe.before, probe.state, heading)
        /\ probe.nextState \notin DOMAIN probe.before =>
              probe.nextState \notin DOMAIN values

\* transition() has made the row of a state and changed its entry, for a
\* nextState that has no row
C25_Witness ==
    /\ probe.kind = "transitioned"
    /\ probe.state \notin DOMAIN probe.before
    /\ probe.nextState \notin DOMAIN values
    /\ values[probe.state][probe.action] # Num(0)

----------------------------------------------------------------------------------------------------------------------------------------
(* The specification of a descent onto the approach: the controller starts *)
(* without aircraft; arrivals are added, fly between a few places, one of  *)
(* them below the glideslope altitude, and are removed                     *)

\* an aircraft on the extended centreline, below the glideslope altitude
BelowGlideslope ==
    [pos |-> [dist |-> 27, brg |-> 172], hdg |-> 300, alt |-> 1000,
     inside |-> TRUE, ctl |-> TRUE]

DescentSnapshots ==
    {BelowGlideslope,
     [BelowGlideslope EXCEPT !.alt = 3000],
     [BelowGlideslope EXCEPT !.alt = 3000, !.pos = [dist |-> 12, brg |-> 172]],
     [BelowGlideslope EXCEPT !.alt = 3000, !.pos = [dist |-> 38, brg |-> 2],
                             !.ctl = FALSE],
     [BelowGlideslope EXCEPT !.alt = 3000, !.pos = [dist |-> 41, brg |-> 2],
                             !.inside = FALSE, !.ctl = FALSE]}

InitDescent ==
    /\ airport \in Airports
    /\ agents = init(<<>>)
    /\ aircraft = <<>>
    /\ values = <<>>
    /\ tick = NoTick
    /\ nUpdates = 0
    /\ probe = NoProbe

NextDescent ==
    \/ \E id \in AircraftIds, s \in DescentSnapshots :
          aircraftAdded(id, "arrival", s)
    \/ \E id \in AircraftIds : aircraftRemoved(id)
    \/ \E id \in AircraftIds, s \in DescentSnapshots : Fly(id, s)
    \/ Update

SpecDescent == InitDescent /\ [][NextDescent]_vars

----------------
(* What an idle tick leaves alone                                          *)

\* the last step was a tick in which every agent's aircraft was located in
\* the agent's lastState
IdleTick ==
    /\ tick.ran
    /\ \A i \in 1 .. Len(tick.before) :
          LocatedAt(tick.before[i].id) = tick.before[i].lastState

\* C26: an update() call in which no agent's located cell differs from its
\* lastState leaves the Q-table, the agent set and every agent's lastState
\* and nextState as they were, makes no Q-update, asks for no action and
\* gives no heading command and no approach clearance: in such a tick no
\* agent is processed, and a tick that processes no agent changes neither
\* the table nor the agents.
C26_IdleTickFrame ==
    /\ [](IdleTick =>
             /\ agents = tick.before
             /\ tick.calls = <<>>
             /\ tick.cmds = <<>>
             /\ tick.queried = <<>>
             /\ tick.recorded = <<>>
             /\ ~tick.thrown)
    /\ [][(tick'.ran /\ tick'.recorded = <<>> /\ ~tick'.thrown) =>
              (values' = values /\ agents' = agents)]_vars

\* an idle tick with an agent whose aircraft is controllable and can now
\* conduct the approach
C26_Witness ==
    /\ IdleTick
    /\ \E i \in 1 .. Len(tick.before) :
          /\ Truthy(tick.before[i].lastState)
          /\ tick.shown[tick.before[i].id].ctl
          /\ canConductInstrumentApproach(tick.shown[tick.before[i].id], airport)

----------------------------------------------------------------------------
(* One agent per aircraft                                                  *)

\* C27: the agent set never holds two agents for one aircraft id; after an
\* add or airspace-enter notification for an arrival that had an agent with
\* a lastState, the agent of that aircraft is a fresh one, without
\* lastState; and a tick makes no Q-update for an agent without lastState,
\* whose located cell it records as a first observation.
C27_OneAgentPerAircraft ==
    /\ Cardinality(AgentIds(agents)) = Len(agents)
    /\ "replaced" \in DOMAIN tick =>
          /\ tick.replaced \in AgentIds(agents)
          /\ AgentOf(agents, tick.replaced) = NewAgent(tick.replaced)
    /\ tick.ran =>
          \A i \in 1 .. Len(tick.before) :
              tick.before[i].lastState = FALSE_ =>
                  /\ CallsOf(tick.before[i].id) = {}
                  /\ (~tick.thrown /\ Truthy(LocatedAt(tick.before[i].id)))
                        => tick.before[i].id \in RecordedIds

\* an add notification has replaced an agent that had a lastState, next to
\* the agent of another aircraft
C27_Witness ==
    /\ "replaced" \in DOMAIN tick
    /\ Len(agents) = 2
    /\ AgentOf(agents, tick.replaced).lastState = FALSE_
    /\ \E i \in 1 .. Len(agents) : Truthy(agents[i].lastState)

====
